---------------------------- MODULE Spec2Model ----------------------------
(***************************************************************************)
(* calltop: the eBPF handlers of src/ebpf.c (named-function probes and the *)
(* raw_syscalls tracepoints) and of src/usdt.c (user-space markers).       *)
(*                                                                         *)
(* One program is loaded at a time; it owns one BPF hash map.  Handlers    *)
(* run on several execution contexts; a handler is a sequence of steps     *)
(* (clock sample and key construction, lookup, loads and stores through    *)
(* pValue, update) and steps of different contexts interleave.             *)
(*                                                                         *)
(* u32 and u64 values are little-endian sequences of 16-bit limbs (two and *)
(* four limbs), so that arithmetic wraps at exactly 2^32 and 2^64.         *)
(***************************************************************************)
EXTENDS Integers, Sequences, FiniteSets, TLC

(***************************************************************************)
(* Bounds of the model.                                                    *)
(***************************************************************************)
\* entries of the hash map of ebpf.c (BPF_HASH(..., 1024*32)) and of usdt.c
\* (BPF_HASH(..., 1024)), scaled down so that a full table is reached: the
\* map of the user-space markers is the smaller one
MapSize == 2
UsdtMapSize == 1
\* handler invocations in one behaviour, handlers running one at a time
MaxSeqEvents == 4
\* handler invocations in one behaviour, handlers interleaved
MaxEvents == 3
\* handler invocations in one behaviour, handlers interleaved and sampling
\* different instants
MaxTimedEvents == 2
\* handler invocations in one behaviour, handlers interleaved with the
\* collector
MaxGcEvents == 2
\* handler invocations in one behaviour, handlers running one at a time
\* for short and long names and several tasks
MaxKeyEvents == 2
\* execution contexts (processor cores) running handlers
NCPU == 2

(***************************************************************************)
(* Fixed-width unsigned integers.                                          *)
(***************************************************************************)
\* one limb holds 16 bits
LimbBase == 2^16

RECURSIVE ToLimbs(_, _)
\* the n-limb two's complement representation of the integer x
ToLimbs(x, n) ==
    IF n = 0 THEN <<>> ELSE <<x % LimbBase>> \o ToLimbs(x \div LimbBase, n - 1)

RECURSIVE AddLimbs(_, _, _)
\* a + b + carry, wrapping at LimbBase^Len(a)
AddLimbs(a, b, carry) ==
    IF a = <<>> THEN <<>>
    ELSE LET s == Head(a) + Head(b) + carry
         IN  <<s % LimbBase>> \o AddLimbs(Tail(a), Tail(b), s \div LimbBase)

RECURSIVE SubLimbs(_, _, _)
\* a - b - borrow, wrapping at LimbBase^Len(a)
SubLimbs(a, b, borrow) ==
    IF a = <<>> THEN <<>>
    ELSE LET d == Head(a) - Head(b) - borrow
         IN  <<d % LimbBase>> \o
             SubLimbs(Tail(a), Tail(b), IF d < 0 THEN 1 ELSE 0)

RECURSIVE LtLimbs(_, _)
\* unsigned a < b
LtLimbs(a, b) ==
    IF a = <<>> THEN FALSE
    ELSE LET n == Len(a)
         IN  IF a[n] # b[n] THEN a[n] < b[n]
             ELSE LtLimbs(SubSeq(a, 1, n - 1), SubSeq(b, 1, n - 1))

\* u32 and u64 conversions of an integer (the C conversion to an unsigned type)
U32(x) == ToLimbs(x, 2)
U64(x) == ToLimbs(x, 4)
\* unsigned less-or-equal
LeLimbs(a, b) == ~LtLimbs(b, a)

(***************************************************************************)
(* Inputs: what the attachment layer and the kernel hand to a handler.     *)
(***************************************************************************)
\* sizeof(key.fname) and sizeof(key.comm)
FNAME_SIZE == 64
COMM_SIZE == 64
\* names are sequences of non-zero bytes (the C string without its NUL)
Fnames == { <<102>>, <<103>> }
\* system call numbers (args->id)
Sysids == { 1 }
\* the running task: comm, thread id (pid) and thread group id (tgid)
Task1 == [comm |-> <<115, 104>>, pid |-> 1, tgid |-> 1]
Task2 == [comm |-> <<112, 121>>, pid |-> 2, tgid |-> 1]
\* a task with the thread id of Task2 and the comm of Task1
Task3 == [comm |-> <<115, 104>>, pid |-> 2, tgid |-> 2]
\* sizeof(struct key_t) of ebpf.c: fname, comm, u32 pid, u32 sysid
KEY_SIZE == FNAME_SIZE + COMM_SIZE + 4 + 4
\* a name that does not fit the fname field of the key
LongName == [i \in 1 .. (FNAME_SIZE + 6) |-> 97 + (i % 26)]
\* a name that reaches the sysid field of the key
OverName == [i \in 1 .. (KEY_SIZE - 2) |-> 97 + (i % 26)]
\* a name that does not fit the key and reaches the locals behind it
HugeName == [i \in 1 .. (KEY_SIZE + 9) |-> 97 + (i % 26)]
\* second argument of a user-space marker: a readable string or a bad pointer
GoodAddr == [ok |-> TRUE, str |-> <<102>>]
GoodAddr2 == [ok |-> TRUE, str |-> <<103>>]
LongAddr == [ok |-> TRUE, str |-> LongName]
BadAddr == [ok |-> FALSE, str |-> <<>>]
\* the reserved entity name "garbage_collector" of usdt_gc_start/usdt_gc_done
GcName == <<103, 97, 114, 98, 97, 103, 101, 95, 99, 111, 108, 108, 101, 99,
            116, 111, 114>>
\* instants (ns) at which bpf_ktime_get_ns() is sampled
Instants == { 100, 105, 150, 200, 260 }

\* A workload: the events the traced system can deliver to the handlers.
\* handlers one at a time: the entities of one task, all instants
SeqLoad ==
    [fnames |-> Fnames, sysids |-> Sysids,
     args |-> {GoodAddr, GoodAddr2, BadAddr},
     tasks |-> {Task1}, instants |-> Instants]
\* interleaved handlers: the entities of one task, one instant
ConcLoad ==
    [fnames |-> Fnames, sysids |-> Sysids, args |-> {GoodAddr, GoodAddr2},
     tasks |-> {Task1}, instants |-> { 100 }]
\* interleaved handlers: the entities of one task, two instants
TimedLoad ==
    [fnames |-> Fnames, sysids |-> Sysids, args |-> {GoodAddr, GoodAddr2},
     tasks |-> {Task1}, instants |-> { 100, 105 }]
\* interleaved handlers and the collector: one name, one system call and a
\* good and a bad marker argument of one task, one instant
GcLoad ==
    [fnames |-> { <<102>> }, sysids |-> Sysids, args |-> {GoodAddr, BadAddr},
     tasks |-> {Task1}, instants |-> { 100 }]
\* handlers one at a time: short and long names, tasks that differ in comm
\* only, in thread id only and in both
KeyLoad ==
    [fnames |-> { <<102>>, LongName, OverName, HugeName },
     sysids |-> { 0, 1 },
     args |-> {GoodAddr, LongAddr, BadAddr},
     tasks |-> {Task1, Task2, Task3}, instants |-> { 100, 150 }]

CPUs == 1 .. NCPU
NULL == 0

Min(a, b) == IF a < b THEN a ELSE b
Take(s, n) == SubSeq(s, 1, Min(Len(s), n))

(***************************************************************************)
(* Helpers of the BPF runtime, as the handlers use them.                   *)
(***************************************************************************)
\* the byte at offset off (from 0) of the C string s: past its last byte the
\* terminator, which is what the zeroed destination already holds
ByteAt(s, off) == IF off < Len(s) THEN s[off + 1] ELSE 0

\* the u32 held little-endian in the four bytes of s from offset off
LeU32(s, off) ==
    << ByteAt(s, off) + 256 * ByteAt(s, off + 1),
       ByteAt(s, off + 2) + 256 * ByteAt(s, off + 3) >>

\* struct key_t key = {}; strcpy(key.fname, fname): the bytes of fname and
\* its terminator are stored from offset 0 of the key with no bound on the
\* length, so a name that does not fit fname runs on into comm, pid and
\* sysid; overflow is set when bytes are stored beyond key.fname (a build
\* that checks the size of the destination ends the handler there)
strcpy(fname) ==
    [fname |-> Take(fname, FNAME_SIZE),
     comm  |-> SubSeq(fname, FNAME_SIZE + 1,
                      Min(Len(fname), FNAME_SIZE + COMM_SIZE)),
     pid   |-> LeU32(fname, FNAME_SIZE + COMM_SIZE),
     sysid |-> LeU32(fname, FNAME_SIZE + COMM_SIZE + 4),
     overflow |-> Len(fname) + 1 > FNAME_SIZE]

\* byte j (from 0) of the u64 v
U64Byte(v, j) ==
    IF j % 2 = 0 THEN v[(j \div 2) + 1] % 256 ELSE v[(j \div 2) + 1] \div 256

\* the u64 local v that lies off bytes behind the start of the key, once
\* strcpy(key.fname, fname) has run: the bytes of the name and its
\* terminator that reach the local replace the bytes of v
Overlay(v, fname, off) ==
    LET byte(j) == IF off + j <= Len(fname) THEN ByteAt(fname, off + j)
                   ELSE U64Byte(v, j)
    IN  [i \in 1 .. 4 |-> byte(2 * i - 2) + 256 * byte(2 * i - 1)]

\* u64 stime = bpf_ktime_get_ns() (endTime in do_return) is read before
\* strcpy() runs: what the local holds afterwards.  Where the build puts
\* the local is its choice: in a register, or on the stack at some
\* distance behind the key, where a name longer than the key reaches it.
Clobbered(v, fname) ==
    {v} \cup {Overlay(v, fname, off) :
                 off \in {o \in KEY_SIZE .. Len(fname) : o % 4 = 0}}

\* bpf_get_current_comm(key.comm, sizeof(key.comm))
bpf_get_current_comm(task) == Take(task.comm, COMM_SIZE - 1)

\* bpf_get_current_pid_tgid(): u64 with the tgid in the upper 32 bits
bpf_get_current_pid_tgid(task) == U32(task.pid) \o U32(task.tgid)

\* key.pid = <u64>: conversion to u32 keeps the low 32 bits
TruncU32(x) == SubSeq(x, 1, 2)

\* bpf_probe_read_str(&key.fname, sizeof(key.fname), addr): the int result
\* (length copied including the NUL, or a negative error) and the buffer
bpf_probe_read_str(arg) ==
    IF arg.ok
    THEN [ret |-> Min(Len(arg.str) + 1, FNAME_SIZE),
          buf |-> Take(arg.str, FNAME_SIZE - 1)]
    ELSE [ret |-> -14, buf |-> <<>>]    \* -EFAULT

\* struct key_t of ebpf.c once the handler has stored comm and pid
key_t(fname, task, sysid) ==
    [fname |-> fname, comm |-> bpf_get_current_comm(task),
     pid |-> TruncU32(bpf_get_current_pid_tgid(task)), sysid |-> sysid]

\* the key of do_enter/do_return: strcpy() into the zeroed key, then the
\* stores to key.comm and key.pid; key.sysid is never assigned and keeps
\* what strcpy() left there
named_key(fname, task) == key_t(strcpy(fname).fname, task, strcpy(fname).sysid)

\* the key of sys_enter/sys_exit: key.sysid = args->id, no name
sysid_key(id, task) == key_t(<<>>, task, U32(id))

\* struct key_t of usdt.c (no sysid)
usdt_key_t(fname, task) ==
    [fname |-> fname, comm |-> bpf_get_current_comm(task),
     pid |-> TruncU32(bpf_get_current_pid_tgid(task))]

\* struct value_t
value_t(counter, startTime, cumLat) ==
    [counter |-> counter, startTime |-> startTime, cumLat |-> cumLat]

\* the members of struct value_t
ValueFields == {"counter", "startTime", "cumLat"}

\* struct value_t valZero = {0,0,0}
valZero == value_t(U32(0), U64(0), U64(0))

\* struct value_t defaultVal = {1,0,0}; defaultVal.startTime = endTime
defaultVal(endTime) == value_t(U32(1), endTime, U64(0))

CounterInc_by2(counter) == AddLimbs(counter, U32(2), 0)

\* pValue->counter++
CounterInc(counter) == AddLimbs(counter, U32(1), 0)

Delta_swapped(endTime, startTime) == SubLimbs(startTime, endTime, 0)

\* endTime - pValue->startTime (u64)
Delta(endTime, startTime) == SubLimbs(endTime, startTime, 0)

\* pValue->cumLat += delta (u64)
AddLat(cumLat, delta) == AddLimbs(cumLat, delta, 0)

\* if (ret < 0) with u32 ret
RetNegative(ret) == LtLimbs(ret, U32(0))

(***************************************************************************)
(* State.                                                                  *)
(***************************************************************************)
VARIABLES
    prog,        \* the program loaded: "ebpf" (src/ebpf.c) or "usdt" (src/usdt.c)
    TRACEPOINT,  \* ACTIVATEALLSYSCALL was replaced by #define TRACEPOINT
    LATENCY,     \* ACTIVATELATENCY was replaced by #define LATENCY
    map,         \* the BPF hash map: key -> element holding its value
    heap,        \* the value each preallocated element holds
    extra,       \* per processor: the spare element its next replacement uses
    freeing,     \* elements of deleted keys not yet back on the free list
    cpu,         \* per execution context: the handler it runs and its locals
    now,         \* last value bpf_ktime_get_ns() returned
    log          \* history: the handler invocations so far, in order

vars == <<prog, TRACEPOINT, LATENCY, freeing, extra, map, heap, cpu, now, log>>

\* max_entries of the map of the program loaded
max_entries == IF prog = "ebpf" THEN MapSize ELSE UsdtMapSize

Pool_oneMore == 1 .. (max_entries + NCPU + 1)

\* the elements the kernel preallocates for the map: max_entries of them on
\* the free list and one spare per processor
Pool == 1 .. (max_entries + NCPU)

\* an execution context that runs no handler.  pValue is the pointer the
\* handler holds, ld the value it has loaded; inside a map update dst is the
\* element being filled and copied the members copied into it so far
Idle == [pc |-> "idle", h |-> "none", key |-> <<>>, time |-> <<>>,
         pValue |-> NULL, ld |-> <<>>, dst |-> NULL, copied |-> {}]

Init ==
    /\ prog \in {"ebpf", "usdt"}
    /\ TRACEPOINT \in (IF prog = "ebpf" THEN BOOLEAN ELSE {FALSE})
    /\ LATENCY \in BOOLEAN
    /\ map = <<>>
    /\ heap = [e \in Pool |-> valZero]
    /\ extra = [c \in CPUs |-> max_entries + c]
    /\ freeing = {}
    /\ cpu = [c \in CPUs |-> Idle]
    /\ now = 0
    /\ log = <<>>

(***************************************************************************)
(* The hash map.                                                           *)
(***************************************************************************)
\* number of keys in the map against max_entries
MapFull(m) == Cardinality(DOMAIN m) >= max_entries

\* map.lookup(&key): pointer to the value of the key's element, or NULL.
\* Lookups take no lock.
lookup(m, key) == IF key \in DOMAIN m THEN m[key] ELSE NULL

\* the elements that map updates in progress are filling
Filling(cp) == {cp[c].dst : c \in CPUs} \ {NULL}

\* the free list: the elements that are neither in the map nor a spare nor
\* being filled nor, their key deleted, still on their way back (fr)
FreeList(m, ex, cp, fr) ==
    Pool \ ({m[k] : k \in DOMAIN m} \cup {ex[c] : c \in CPUs}
               \cup Filling(cp) \cup fr)

\* the elements some handler in flight points to
Held(cp) == {cp[c].pValue : c \in CPUs} \ {NULL}

\* what taking an element from the free list can yield: NULL when the list
\* is empty (E2BIG), else any element of it; which one depends on the processor
\* that frees and the one that allocates.  The free elements no handler
\* points to are interchangeable, the first stands for them.
pop(m, ex, cp, fr) ==
    LET free == FreeList(m, ex, cp, fr)
        idle == free \ Held(cp)
    IN  IF free = {} THEN {NULL}
        ELSE (free \cap Held(cp))
             \cup {e \in idle : \A f \in idle : e <= f}

\* a map update (insertion, replacement, deletion) holds the lock of the
\* key's bucket from its lookup to the linking of the element: another
\* context is inside an update for the key.  Keys of different buckets do
\* not exclude each other.
Locked(cp, c, key) ==
    \E d \in CPUs \ {c} : cp[d].dst # NULL /\ cp[d].key = key

insert_noexist_evict(m, key, e) ==
    IF key \in DOMAIN m THEN [map |-> m, dst |-> NULL]
    ELSE IF e # NULL \/ DOMAIN m = {} THEN [map |-> m, dst |-> e]
    ELSE LET old == CHOOSE k \in DOMAIN m : TRUE
         IN  [map |-> [k \in DOMAIN m \ {old} |-> m[k]], dst |-> m[old]]

\* the insertion inside map.lookup_or_try_init(&key, &init): update of the
\* key with the flag BPF_NOEXIST, under the bucket lock.  The key is in the
\* map (EEXIST) or the free list is empty (E2BIG): no element (NULL); else
\* the element e taken from the free list is the one to fill.  The map is
\* left as it is.
insert_noexist(m, key, e) ==
    IF key \in DOMAIN m \/ e = NULL THEN [map |-> m, dst |-> NULL]
    ELSE [map |-> m, dst |-> e]

\* the element map.update(&key, pValue) on processor c fills, chosen under
\* the bucket lock.  Key in the map: the spare of the processor.  Key not in
\* the map: the element e taken from the free list, NULL with an empty free
\* list (E2BIG).
alloc_elem(m, ex, c, key, e) == IF key \in DOMAIN m THEN ex[c] ELSE e

\* copy of member f of the value src into element dst: the kernel copies
\* the value with memcpy(), piece by piece in the order its implementation
\* chooses, with no lock against the stores handlers make through their
\* pointers
CopyField(hp, dst, src, f) == [hp EXCEPT ![dst][f] = src[f]]

\* the end of a map update on processor c: the filled element dst enters
\* the map under the key; the element it replaces becomes the spare of the
\* processor
update(m, ex, c, key, dst) ==
    [map |-> (key :> dst) @@ m,
     extra |-> IF key \in DOMAIN m THEN [ex EXCEPT ![c] = m[key]] ELSE ex]

\* clear(key) of the collector: under the bucket lock the key leaves the
\* map; its element is not on the free list yet, so an insertion that runs
\* now may find no element although the map has room.  A handler that holds
\* a pointer to the element still reads and writes it.
clear(k) ==
    /\ k \in DOMAIN map
    /\ ~Locked(cpu, NULL, k)
    /\ map' = [j \in DOMAIN map \ {k} |-> map[j]]
    /\ freeing' = freeing \cup {map[k]}
    /\ UNCHANGED <<prog, TRACEPOINT, LATENCY, extra, heap, cpu, now, log>>

\* the end of a deletion: the element e of the deleted key returns to the
\* free list
free_htab_elem(e) ==
    /\ e \in freeing
    /\ freeing' = freeing \ {e}
    /\ UNCHANGED <<prog, TRACEPOINT, LATENCY, extra, map, heap, cpu, now, log>>

(***************************************************************************)
(* Steps of a handler on execution context c.  Every access to the shared  *)
(* element through pValue is a step of its own.                            *)
(***************************************************************************)
Running(c, h) == cpu[c].h = h

\* the handler fires: it samples the clock (u64 stime/endTime =
\* bpf_ktime_get_ns()) and builds its key on its stack; time is what the
\* local holds once the key is built
BeginAt(c, h, key, t, time, fault) ==
    /\ cpu[c].pc = "idle"
    /\ t >= now
    /\ now' = t
    /\ cpu' = [cpu EXCEPT ![c] = [Idle EXCEPT !.pc = "lookup", !.h = h,
                                              !.key = key, !.time = time]]
    /\ log' = Append(log, [h |-> h, key |-> key, t |-> t, fault |-> fault])
    /\ UNCHANGED <<prog, TRACEPOINT, LATENCY, freeing, extra, map, heap>>

\* the handler fires and its local still holds the clock sample
Begin(c, h, key, t, fault) == BeginAt(c, h, key, t, U64(t), fault)

\* a handler of usdt.c fires: it samples the clock, then reads the name
\* from the memory of the traced process; ret is the u32 that receives the
\* result of the read, key the key it goes on to build
BeginRead(c, h, key, t, ret, fault) ==
    /\ cpu[c].pc = "idle"
    /\ t >= now
    /\ now' = t
    /\ cpu' = [cpu EXCEPT ![c] = [Idle EXCEPT !.pc = "read", !.h = h,
                                              !.key = key, !.time = U64(t),
                                              !.ld = ret]]
    /\ log' = Append(log, [h |-> h, key |-> key, t |-> t, fault |-> fault])
    /\ UNCHANGED <<prog, TRACEPOINT, LATENCY, freeing, extra, map, heap>>

\* if (ret < 0) return 0; else the handler stores comm and pid in the key
CheckRet(c) ==
    /\ cpu[c].pc = "read"
    /\ cpu' = [cpu EXCEPT ![c] =
                 IF RetNegative(cpu[c].ld) THEN Idle
                 ELSE [@ EXCEPT !.pc = "lookup", !.ld = <<>>]]
    /\ UNCHANGED <<prog, TRACEPOINT, LATENCY, freeing, extra, map, heap, now, log>>

\* the invocation ends before its lookup: the end of a handler whose
\* strcpy() wrote beyond key.fname, in a build that checks the size of the
\* destination
Drop(c, h, key, t, fault) ==
    /\ cpu[c].pc = "idle"
    /\ t >= now
    /\ now' = t
    /\ log' = Append(log, [h |-> h, key |-> key, t |-> t, fault |-> fault])
    /\ UNCHANGED <<prog, TRACEPOINT, LATENCY, freeing, extra, map, heap, cpu>>

GetLeaf_retry(c, at, leaf, next) ==
    /\ cpu[c].pc = at
    /\ cpu' = [cpu EXCEPT ![c] =
                 IF leaf = NULL THEN @
                 ELSE [@ EXCEPT !.pc = next, !.pValue = leaf]]
    /\ UNCHANGED <<prog, TRACEPOINT, LATENCY, freeing, extra, map, heap, now, log>>

\* pValue = <leaf>; if (!pValue) return 0;
GetLeaf(c, at, leaf, next) ==
    /\ cpu[c].pc = at
    /\ cpu' = [cpu EXCEPT ![c] =
                 IF leaf = NULL THEN Idle
                 ELSE [@ EXCEPT !.pc = next, !.pValue = leaf]]
    /\ UNCHANGED <<prog, TRACEPOINT, LATENCY, freeing, extra, map, heap, now, log>>

\* member f is copied; after the last one the element is linked
Copied(c, f, link) ==
    [cpu EXCEPT ![c].copied = @ \cup {f},
                ![c].pc = IF cpu[c].copied \cup {f} = ValueFields THEN link
                          ELSE @]

\* pValue = map.lookup_or_try_init(&key, &init); if (!pValue) return 0;
\* The call is three map operations: a lookup; on a miss the insertion of
\* init and a second lookup, whose result the call returns.  The insertion
\* takes the bucket lock and an element, copies init into it member by
\* member and links it.
lookup_or_try_init(c, init, next) ==
    \/ /\ cpu[c].pc = "lookup"
       /\ cpu' = [cpu EXCEPT ![c] =
                    IF lookup(map, cpu[c].key) = NULL
                    THEN [@ EXCEPT !.pc = "init"]
                    ELSE [@ EXCEPT !.pc = next,
                                   !.pValue = lookup(map, cpu[c].key)]]
       /\ UNCHANGED <<prog, TRACEPOINT, LATENCY, freeing, extra, map, heap, now, log>>
    \/ /\ cpu[c].pc = "init"
       /\ ~Locked(cpu, c, cpu[c].key)
       /\ \E e \in pop(map, extra, cpu, freeing) :
             LET r == insert_noexist(map, cpu[c].key, e)
             IN  /\ map' = r.map
                 /\ cpu' = [cpu EXCEPT ![c] =
                              IF r.dst = NULL
                              THEN [@ EXCEPT !.pc = "relookup"]
                              ELSE [@ EXCEPT !.pc = "init_copy",
                                             !.dst = r.dst]]
       /\ UNCHANGED <<prog, TRACEPOINT, LATENCY, freeing, extra, heap, now, log>>
    \/ /\ cpu[c].pc = "init_copy"
       /\ \E f \in ValueFields \ cpu[c].copied :
             /\ heap' = CopyField(heap, cpu[c].dst, init, f)
             /\ cpu' = Copied(c, f, "init_link")
       /\ UNCHANGED <<prog, TRACEPOINT, LATENCY, freeing, extra, map, now, log>>
    \/ /\ cpu[c].pc = "init_link"
       /\ map' = update(map, extra, c, cpu[c].key, cpu[c].dst).map
       /\ cpu' = [cpu EXCEPT ![c].pc = "relookup", ![c].dst = NULL,
                             ![c].copied = {}]
       /\ UNCHANGED <<prog, TRACEPOINT, LATENCY, freeing, extra, heap, now, log>>
    \/ GetLeaf(c, "relookup", lookup(map, cpu[c].key), next)

\* pValue = map.lookup_or_init(&key, &init) of ebpf.c: lookup_or_try_init()
\* with "if (!leaf) return 0;" as the last statement of the call itself,
\* so a NULL leaf ends the calling handler
lookup_or_init(c, init, next) == lookup_or_try_init(c, init, next)

\* pValue->counter++; pValue->startTime = stime; are a load and two stores
\* to the element, which the compiler orders as it chooses as long as the
\* store of counter follows its load.  At "load_counter" nothing is done, at
\* "store_counter" counter is loaded, at "store_start" it is stored; at
\* "load_counter2" and "store_counter2" startTime is stored already.
\* pValue->counter++ : the load
LoadCounter(c) ==
    /\ cpu[c].pc \in {"load_counter", "load_counter2"}
    /\ cpu' = [cpu EXCEPT ![c].pc = IF @ = "load_counter"
                                    THEN "store_counter"
                                    ELSE "store_counter2",
                          ![c].ld = heap[cpu[c].pValue].counter]
    /\ UNCHANGED <<prog, TRACEPOINT, LATENCY, freeing, extra, map, heap, now, log>>

\* pValue->counter++ : the store
StoreCounter(c) ==
    /\ cpu[c].pc \in {"store_counter", "store_counter2"}
    /\ heap' = [heap EXCEPT ![cpu[c].pValue].counter = CounterInc(cpu[c].ld)]
    /\ cpu' = [cpu EXCEPT ![c].pc = IF @ = "store_counter"
                                    THEN "store_start"
                                    ELSE "update",
                          ![c].ld = <<>>]
    /\ UNCHANGED <<prog, TRACEPOINT, LATENCY, freeing, extra, map, now, log>>

\* where the handler stands once startTime is stored
AfterStart(pc) ==
    CASE pc = "load_counter" -> "load_counter2"
      [] pc = "store_counter" -> "store_counter2"
      [] pc = "store_start" -> "update"

StoreStart_keepFirst(c) ==
    /\ cpu[c].pc \in {"load_counter", "store_counter", "store_start"}
    /\ heap' = [heap EXCEPT ![cpu[c].pValue].startTime =
                   IF @ = U64(0) THEN cpu[c].time ELSE @]
    /\ cpu' = [cpu EXCEPT ![c].pc = AfterStart(@)]
    /\ UNCHANGED <<prog, TRACEPOINT, LATENCY, freeing, extra, map, now, log>>

\* pValue->startTime = stime
StoreStart(c) ==
    /\ cpu[c].pc \in {"load_counter", "store_counter", "store_start"}
    /\ heap' = [heap EXCEPT ![cpu[c].pValue].startTime = cpu[c].time]
    /\ cpu' = [cpu EXCEPT ![c].pc = AfterStart(@)]
    /\ UNCHANGED <<prog, TRACEPOINT, LATENCY, freeing, extra, map, now, log>>

\* pValue->startTime == 0 of do_return: return 0
CheckStart(c) ==
    /\ cpu[c].pc = "check_start"
    /\ cpu' = [cpu EXCEPT ![c] =
                 IF heap[cpu[c].pValue].startTime = U64(0) THEN Idle
                 ELSE [@ EXCEPT !.pc = "load_start"]]
    /\ UNCHANGED <<prog, TRACEPOINT, LATENCY, freeing, extra, map, heap, now, log>>

\* pValue->cumLat += endTime - pValue->startTime : the load of startTime.
\* The statement loads startTime and cumLat in the order the compiler
\* chooses: at "load_start" neither is loaded, at "load_lat" startTime is
\* (ld holds the delta), at "load_start2" cumLat is (ld holds it).
LoadStart(c) ==
    /\ \/ /\ cpu[c].pc = "load_start"
          /\ cpu' = [cpu EXCEPT
                       ![c].pc = "load_lat",
                       ![c].ld = Delta(cpu[c].time,
                                       heap[cpu[c].pValue].startTime)]
       \/ /\ cpu[c].pc = "load_start2"
          /\ cpu' = [cpu EXCEPT
                       ![c].pc = "store_lat",
                       ![c].ld = AddLat(cpu[c].ld,
                                        Delta(cpu[c].time,
                                              heap[cpu[c].pValue].startTime))]
    /\ UNCHANGED <<prog, TRACEPOINT, LATENCY, freeing, extra, map, heap, now, log>>

\* pValue->cumLat += endTime - pValue->startTime : the load of cumLat
LoadLat(c) ==
    /\ \/ /\ cpu[c].pc = "load_lat"
          /\ cpu' = [cpu EXCEPT
                       ![c].pc = "store_lat",
                       ![c].ld = AddLat(heap[cpu[c].pValue].cumLat,
                                        cpu[c].ld)]
       \/ /\ cpu[c].pc = "load_start"
          /\ cpu' = [cpu EXCEPT ![c].pc = "load_start2",
                                ![c].ld = heap[cpu[c].pValue].cumLat]
    /\ UNCHANGED <<prog, TRACEPOINT, LATENCY, freeing, extra, map, heap, now, log>>

\* pValue->cumLat += endTime - pValue->startTime : the store
StoreLat(c) ==
    /\ cpu[c].pc = "store_lat"
    /\ heap' = [heap EXCEPT ![cpu[c].pValue].cumLat = cpu[c].ld]
    /\ cpu' = [cpu EXCEPT ![c].pc = "update", ![c].ld = <<>>]
    /\ UNCHANGED <<prog, TRACEPOINT, LATENCY, freeing, extra, map, now, log>>

\* map.update(&key, pValue); return 0;  The update takes the bucket lock
\* and the element to fill, copies *pValue into it member by member while
\* other contexts go on storing through their pointers, and links it; with
\* no element to fill (E2BIG) the handler returns at once.
Update(c) ==
    \/ /\ cpu[c].pc = "update"
       /\ ~Locked(cpu, c, cpu[c].key)
       /\ \E e \in pop(map, extra, cpu, freeing) :
             LET dst == alloc_elem(map, extra, c, cpu[c].key, e)
             IN  cpu' = [cpu EXCEPT ![c] =
                          IF dst = NULL THEN Idle
                          ELSE [@ EXCEPT !.pc = "copy", !.dst = dst]]
       /\ UNCHANGED <<prog, TRACEPOINT, LATENCY, freeing, extra, map, heap, now, log>>
    \/ /\ cpu[c].pc = "copy"
       /\ \E f \in ValueFields \ cpu[c].copied :
             /\ heap' = CopyField(heap, cpu[c].dst, heap[cpu[c].pValue], f)
             /\ cpu' = Copied(c, f, "link")
       /\ UNCHANGED <<prog, TRACEPOINT, LATENCY, freeing, extra, map, now, log>>
    \/ /\ cpu[c].pc = "link"
       /\ LET r == update(map, extra, c, cpu[c].key, cpu[c].dst)
          IN  map' = r.map /\ extra' = r.extra
       /\ cpu' = [cpu EXCEPT ![c] = Idle]
       /\ UNCHANGED <<prog, TRACEPOINT, LATENCY, freeing, heap, now, log>>

\* the statements after the lookup of an entry handler
EnterBody(c) ==
    LoadCounter(c) \/ StoreCounter(c) \/ StoreStart(c) \/ Update(c)

\* the statements after the lookup of an exit handler
ReturnBody(c) ==
    LoadStart(c) \/ LoadLat(c) \/ StoreLat(c) \/ Update(c)

(***************************************************************************)
(* The handlers.  do_enter and do_return are compiled into every build of  *)
(* ebpf.c, the raw_syscalls tracepoints with TRACEPOINT only; which of the *)
(* compiled handlers fire is up to the attachment layer.                   *)
(***************************************************************************)
\* static int do_enter(void * ctx, char * fname)
do_enter(c, W) ==
    /\ prog = "ebpf"
    /\ \/ \E fname \in W.fnames, task \in W.tasks, t \in W.instants :
            \/ \E stime \in Clobbered(U64(t), fname) :
                  BeginAt(c, "do_enter", named_key(fname, task), t, stime,
                          FALSE)
            \/ /\ strcpy(fname).overflow
               /\ Drop(c, "do_enter", named_key(fname, task), t, FALSE)
       \/ /\ Running(c, "do_enter")
          /\ \/ lookup_or_init(c, valZero, "load_counter")
             \/ EnterBody(c)

\* static int do_return(void * ctx, char * fname), under #ifdef LATENCY
do_return(c, W) ==
    /\ prog = "ebpf" /\ LATENCY
    /\ \/ \E fname \in W.fnames, task \in W.tasks, t \in W.instants :
            \/ \E endTime \in Clobbered(U64(t), fname) :
                  BeginAt(c, "do_return", named_key(fname, task), t, endTime,
                          FALSE)
            \/ /\ strcpy(fname).overflow
               /\ Drop(c, "do_return", named_key(fname, task), t, FALSE)
       \/ /\ Running(c, "do_return")
          /\ \/ GetLeaf(c, "lookup", lookup(map, cpu[c].key), "check_start")
             \/ CheckStart(c)
             \/ ReturnBody(c)

\* TRACEPOINT_PROBE(raw_syscalls, sys_enter), under #ifdef TRACEPOINT.
\* Its own test of pValue is commented out; the return on a NULL leaf is
\* the one inside lookup_or_init().
sys_enter(c, W) ==
    /\ prog = "ebpf" /\ TRACEPOINT
    /\ \/ \E id \in W.sysids, task \in W.tasks, t \in W.instants :
            Begin(c, "sys_enter", sysid_key(id, task), t, FALSE)
       \/ /\ Running(c, "sys_enter")
          /\ \/ lookup_or_init(c, valZero, "load_counter")
             \/ EnterBody(c)

\* TRACEPOINT_PROBE(raw_syscalls, sys_exit), under TRACEPOINT and LATENCY
sys_exit(c, W) ==
    /\ prog = "ebpf" /\ TRACEPOINT /\ LATENCY
    /\ \/ \E id \in W.sysids, task \in W.tasks, t \in W.instants :
            Begin(c, "sys_exit", sysid_key(id, task), t, FALSE)
       \/ /\ Running(c, "sys_exit")
          /\ \/ GetLeaf(c, "lookup", lookup(map, cpu[c].key), "load_start")
             \/ ReturnBody(c)

\* int usdt_gc_start(struct pt_regs *ctx)
usdt_gc_start(c, W) ==
    /\ prog = "usdt"
    /\ \/ \E task \in W.tasks, t \in W.instants :
            Begin(c, "usdt_gc_start", usdt_key_t(GcName, task), t, FALSE)
       \/ /\ Running(c, "usdt_gc_start")
          /\ \/ lookup_or_try_init(c, valZero, "load_counter")
             \/ EnterBody(c)

\* int usdt_gc_done(struct pt_regs *ctx), outside #ifdef LATENCY
usdt_gc_done(c, W) ==
    /\ prog = "usdt"
    /\ \/ \E task \in W.tasks, t \in W.instants :
            Begin(c, "usdt_gc_done", usdt_key_t(GcName, task), t, FALSE)
       \/ /\ Running(c, "usdt_gc_done")
          /\ \/ lookup_or_try_init(c, defaultVal(cpu[c].time), "load_start")
             \/ ReturnBody(c)

\* int usdt_enter(struct pt_regs *ctx)
usdt_enter(c, W) ==
    /\ prog = "usdt"
    /\ \/ \E arg \in W.args, task \in W.tasks, t \in W.instants :
            LET r == bpf_probe_read_str(arg)
            IN  BeginRead(c, "usdt_enter", usdt_key_t(r.buf, task), t,
                          U32(r.ret), ~arg.ok)
       \/ /\ Running(c, "usdt_enter")
          /\ \/ CheckRet(c)
             \/ lookup_or_try_init(c, valZero, "load_counter")
             \/ EnterBody(c)

\* int usdt_return(struct pt_regs *ctx), under #ifdef LATENCY
usdt_return(c, W) ==
    /\ prog = "usdt" /\ LATENCY
    /\ \/ \E arg \in W.args, task \in W.tasks, t \in W.instants :
            LET r == bpf_probe_read_str(arg)
            IN  BeginRead(c, "usdt_return", usdt_key_t(r.buf, task), t,
                          U32(r.ret), ~arg.ok)
       \/ /\ Running(c, "usdt_return")
          /\ \/ CheckRet(c)
             \/ lookup_or_try_init(c, defaultVal(cpu[c].time), "load_start")
             \/ ReturnBody(c)

(***************************************************************************)
(* Specifications.                                                         *)
(***************************************************************************)
\* the contexts are interchangeable: a handler fires on the first idle one
FirstIdle(c) ==
    cpu[c].pc = "idle" => \A d \in CPUs : d < c => cpu[d].pc # "idle"

\* no other context is in the middle of a handler
Alone(c) == \A d \in CPUs \ {c} : cpu[d].pc = "idle"

\* at most max handler invocations in a behaviour
Budget(c, max) == cpu[c].pc = "idle" => Len(log) < max

\* a step A of context c while handlers interleave
Interleaved(c, A) ==
    /\ FirstIdle(c)
    /\ Budget(c, MaxEvents)
    /\ A

Next ==
    \E c \in CPUs :
        \/ Interleaved(c, do_enter(c, ConcLoad))
        \/ Interleaved(c, do_return(c, ConcLoad))
        \/ Interleaved(c, sys_enter(c, ConcLoad))
        \/ Interleaved(c, sys_exit(c, ConcLoad))
        \/ Interleaved(c, usdt_gc_start(c, ConcLoad))
        \/ Interleaved(c, usdt_gc_done(c, ConcLoad))
        \/ Interleaved(c, usdt_enter(c, ConcLoad))
        \/ Interleaved(c, usdt_return(c, ConcLoad))

Spec == Init /\ [][Next]_vars

\* a step A of context c while handlers interleave and sample the clock at
\* different instants
Timed(c, A) ==
    /\ FirstIdle(c)
    /\ Budget(c, MaxTimedEvents)
    /\ A

NextTimed ==
    \E c \in CPUs :
        \/ Timed(c, do_enter(c, TimedLoad))
        \/ Timed(c, do_return(c, TimedLoad))
        \/ Timed(c, sys_enter(c, TimedLoad))
        \/ Timed(c, sys_exit(c, TimedLoad))
        \/ Timed(c, usdt_gc_start(c, TimedLoad))
        \/ Timed(c, usdt_gc_done(c, TimedLoad))
        \/ Timed(c, usdt_enter(c, TimedLoad))
        \/ Timed(c, usdt_return(c, TimedLoad))

SpecTimed == Init /\ [][NextTimed]_vars

\* a step A of context c while handlers run one after another, each to
\* completion, every clock sample later than the one before
OneAtATime(c, A) ==
    /\ FirstIdle(c)
    /\ Alone(c)
    /\ Budget(c, MaxSeqEvents)
    /\ A
    /\ log' # log => now' > now

NextSeq ==
    \E c \in CPUs :
        \/ OneAtATime(c, do_enter(c, SeqLoad))
        \/ OneAtATime(c, do_return(c, SeqLoad))
        \/ OneAtATime(c, sys_enter(c, SeqLoad))
        \/ OneAtATime(c, sys_exit(c, SeqLoad))
        \/ OneAtATime(c, usdt_gc_start(c, SeqLoad))
        \/ OneAtATime(c, usdt_gc_done(c, SeqLoad))
        \/ OneAtATime(c, usdt_enter(c, SeqLoad))
        \/ OneAtATime(c, usdt_return(c, SeqLoad))

SpecSeq == Init /\ [][NextSeq]_vars

\* a step of a handler in flight on context c
HandlerStep(c) ==
    /\ cpu[c].pc # "idle"
    /\ \/ do_enter(c, GcLoad) \/ do_return(c, GcLoad)
       \/ sys_enter(c, GcLoad) \/ sys_exit(c, GcLoad)
       \/ usdt_gc_start(c, GcLoad) \/ usdt_gc_done(c, GcLoad)
       \/ usdt_enter(c, GcLoad) \/ usdt_return(c, GcLoad)

\* a step A of context c while handlers interleave with the collector
WithCollector(c, A) ==
    /\ FirstIdle(c)
    /\ Budget(c, MaxGcEvents)
    /\ A

\* interleaved handlers and the collector clearing keys at any moment
NextGC ==
    \/ \E c \in CPUs :
          \/ WithCollector(c, do_enter(c, GcLoad))
          \/ WithCollector(c, do_return(c, GcLoad))
          \/ WithCollector(c, sys_enter(c, GcLoad))
          \/ WithCollector(c, sys_exit(c, GcLoad))
          \/ WithCollector(c, usdt_gc_start(c, GcLoad))
          \/ WithCollector(c, usdt_gc_done(c, GcLoad))
          \/ WithCollector(c, usdt_enter(c, GcLoad))
          \/ WithCollector(c, usdt_return(c, GcLoad))
    \/ \E k \in DOMAIN map : clear(k)
    \/ \E e \in freeing : free_htab_elem(e)

SpecGC == Init /\ [][NextGC]_vars

\* a handler in flight keeps taking steps: its context runs it to the end,
\* whatever the other contexts and the collector do
SpecFair == SpecGC /\ \A c \in CPUs : WF_vars(HandlerStep(c))

\* a step A of context c while handlers run one after another for the
\* names and tasks of KeyLoad
OneKeyAtATime(c, A) ==
    /\ FirstIdle(c)
    /\ Alone(c)
    /\ Budget(c, MaxKeyEvents)
    /\ A
    /\ log' # log => now' > now

NextKeys ==
    \E c \in CPUs :
        \/ OneKeyAtATime(c, do_enter(c, KeyLoad))
        \/ OneKeyAtATime(c, do_return(c, KeyLoad))
        \/ OneKeyAtATime(c, sys_enter(c, KeyLoad))
        \/ OneKeyAtATime(c, sys_exit(c, KeyLoad))
        \/ OneKeyAtATime(c, usdt_gc_start(c, KeyLoad))
        \/ OneKeyAtATime(c, usdt_gc_done(c, KeyLoad))
        \/ OneKeyAtATime(c, usdt_enter(c, KeyLoad))
        \/ OneKeyAtATime(c, usdt_return(c, KeyLoad))

SpecKeys == Init /\ [][NextKeys]_vars

(***************************************************************************)
(* Vocabulary of the properties.                                           *)
(***************************************************************************)
EntryHandlers == {"do_enter", "sys_enter", "usdt_enter", "usdt_gc_start"}
ExitHandlers == {"do_return", "sys_exit", "usdt_return", "usdt_gc_done"}

\* no handler is in flight
AllIdle == \A c \in CPUs : cpu[c].pc = "idle"
\* the value stored for a key of the map
Val(k) == heap[map[k]]
\* the keys handlers were invoked for
LogKeys == {log[i].key : i \in DOMAIN log}
\* the invocations for key k, in order
OnKey(k) == SelectSeq(log, LAMBDA e : e.key = k)
\* all invocations for key k are entry handlers
OnlyEntries(k) == \A i \in DOMAIN log :
                     log[i].key = k => log[i].h \in EntryHandlers
\* the last element of a non-empty sequence
Last(q) == q[Len(q)]

(***************************************************************************)
(* C1: N entry handlers for one key, run one after another from the key    *)
(* being absent, leave counter = N; the key is absent afterwards only if   *)
(* the map was full.                                                       *)
(***************************************************************************)
C1_CounterCountsEntries ==
    AllIdle =>
        \A k \in LogKeys :
            OnlyEntries(k) =>
                IF k \in DOMAIN map
                THEN Val(k).counter = U32(Len(OnKey(k)))
                ELSE MapFull(map)

\* three entry handlers have run for a key of the map
C1_Witness ==
    /\ AllIdle
    /\ \E k \in DOMAIN map :
          OnlyEntries(k) /\ Len(OnKey(k)) = 3 /\ Val(k).counter = U32(3)

(***************************************************************************)
(* C2: an exit handler that follows an entry handler on its key (handlers  *)
(* one at a time) adds exactly t1 - t0 to cumLat and leaves counter alone; *)
(* entry(100), exit(150), entry(200), exit(260) on one key end with        *)
(* counter = 2 and cumLat = 110.                                           *)
(***************************************************************************)
\* the value stored for key k after the step
ValNext(k) == heap'[map'[k]]

\* the running invocation of context c follows an entry handler on its key
FollowsEntry(c) ==
    LET q == OnKey(cpu[c].key)
    IN  Len(q) >= 2 /\ q[Len(q) - 1].h \in EntryHandlers

\* t1 - t0 of the running invocation of c and the one before it on its key
PairTime(c) ==
    LET q == OnKey(cpu[c].key) IN q[Len(q)].t - q[Len(q) - 1].t

C2_ExitStep ==
    \A c \in CPUs :
        (/\ cpu[c].h \in ExitHandlers
         /\ cpu[c].key \in DOMAIN map
         /\ FollowsEntry(c))
        => LET k == cpu[c].key
           IN  /\ k \in DOMAIN map'
               /\ ValNext(k).counter = Val(k).counter
               /\ ValNext(k).cumLat =
                      IF cpu[c].pc = "store_lat"
                      THEN AddLat(Val(k).cumLat, U64(PairTime(c)))
                      ELSE Val(k).cumLat

\* the invocations of q are entry, exit, entry, exit at 100, 150, 200, 260
IsScenario4(q) ==
    /\ Len(q) = 4
    /\ q[1].h \in EntryHandlers /\ q[1].t = 100
    /\ q[2].h \in ExitHandlers /\ q[2].t = 150
    /\ q[3].h \in EntryHandlers /\ q[3].t = 200
    /\ q[4].h \in ExitHandlers /\ q[4].t = 260

C2_Scenario ==
    AllIdle =>
        \A k \in LogKeys :
            IsScenario4(OnKey(k)) =>
                IF k \in DOMAIN map
                THEN Val(k).counter = U32(2) /\ Val(k).cumLat = U64(110)
                ELSE MapFull(map)

C2_PairAddsDelta == []C2_Scenario /\ [][C2_ExitStep]_vars

\* the scenario has run for a key of the map
C2_Witness ==
    /\ AllIdle
    /\ \E k \in DOMAIN map :
          /\ IsScenario4(OnKey(k))
          /\ Val(k).counter = U32(2) /\ Val(k).cumLat = U64(110)

(***************************************************************************)
(* C3: an entry handler whose key is new while the map holds max_entries   *)
(* keys goes through its lookup without obtaining a value and returns; map *)
(* and elements are left as they were.                                     *)
(***************************************************************************)
C3_Step ==
    \A c \in CPUs :
        (/\ cpu[c].h \in EntryHandlers
         /\ cpu[c].key \notin DOMAIN map
         /\ Cardinality(DOMAIN map) = max_entries)
        => /\ map' = map /\ heap' = heap
           /\ cpu'[c].pValue = NULL
           /\ cpu'[c].pc \in {"lookup", "init", "relookup", "idle"}
           /\ cpu'[c].pc = "lookup" => cpu[c].pc = "read"
           /\ cpu[c].pc = "relookup" => cpu'[c] = Idle

C3_FullMapDropsEntry == [][C3_Step]_vars

\* sys_enter has returned for a new key on a full map
C3_Witness ==
    /\ AllIdle
    /\ log # <<>>
    /\ Last(log).h = "sys_enter"
    /\ Last(log).key \notin DOMAIN map
    /\ Cardinality(DOMAIN map) = max_entries

(***************************************************************************)
(* C10: two entry handlers at ta, tb and then an exit handler at t on one  *)
(* fresh key (handlers one at a time) leave counter = 2 and cumLat = t - tb *)
(* (45 for 100, 105, 150).                                                 *)
(***************************************************************************)
IsEntryEntryExit(q) ==
    /\ Len(q) = 3
    /\ q[1].h \in EntryHandlers
    /\ q[2].h \in EntryHandlers
    /\ q[3].h \in ExitHandlers

C10_LatestStartPaired ==
    AllIdle =>
        \A k \in LogKeys :
            LET q == OnKey(k)
            IN  IsEntryEntryExit(q) =>
                    IF k \in DOMAIN map
                    THEN /\ Val(k).counter = U32(2)
                         /\ Val(k).cumLat = U64(q[3].t - q[2].t)
                    ELSE MapFull(map)

\* entry(100), entry(105), exit(150) have run for a key of the map
C10_Witness ==
    /\ AllIdle
    /\ \E k \in DOMAIN map :
          LET q == OnKey(k)
          IN  /\ IsEntryEntryExit(q)
              /\ q[1].t = 100 /\ q[2].t = 105 /\ q[3].t = 150
              /\ Val(k).counter = U32(2) /\ Val(k).cumLat = U64(45)

(***************************************************************************)
(* C4: an exit handler run for a key that is not in the map (map not full) *)
(* leaves the key in the map with counter = 1 and cumLat = 0.              *)
(***************************************************************************)
C4_UnmatchedExitBaseline ==
    AllIdle =>
        \A k \in LogKeys :
            LET q == OnKey(k)
            IN  (Len(q) = 1 /\ q[1].h \in ExitHandlers) =>
                    IF k \in DOMAIN map
                    THEN Val(k).counter = U32(1) /\ Val(k).cumLat = U64(0)
                    ELSE MapFull(map)

(***************************************************************************)
(* C5: usdt_enter and usdt_return invoked with an unreadable marker        *)
(* argument change neither the map nor any element.                        *)
(***************************************************************************)
C5_FaultStep ==
    (log' # <<>> /\ Last(log').fault) => (map' = map /\ heap' = heap)

C5_ReadFailureDrops == [][C5_FaultStep]_vars

(***************************************************************************)
(* C6: an exit handler that has read startTime == 0 from its element holds *)
(* no delta to add to cumLat.                                              *)
(***************************************************************************)
C6_NoDeltaFromZeroStart ==
    \A c \in CPUs :
        (cpu[c].h \in ExitHandlers /\ cpu[c].pc = "load_lat")
        => cpu[c].ld # Delta(cpu[c].time, U64(0))

(***************************************************************************)
(* C7: once N interleaved entry handlers for one key have all returned,    *)
(* the key's counter is N.                                                 *)
(***************************************************************************)
C7_NoLostIncrement ==
    AllIdle =>
        \A k \in DOMAIN map :
            OnlyEntries(k) => Val(k).counter = U32(Len(OnKey(k)))

(***************************************************************************)
(* C8: no step of interleaved handlers makes the counter stored for a key  *)
(* smaller.                                                                *)
(***************************************************************************)
C8_Step ==
    \A k \in DOMAIN map :
        k \in DOMAIN map' /\ LeLimbs(Val(k).counter, ValNext(k).counter)

C8_CounterNeverDecreases == [][C8_Step]_vars

(***************************************************************************)
(* C9: the delta an exit handler is about to add to cumLat is its end time *)
(* minus a start time that is not later, never a wrapped-around value.     *)
(***************************************************************************)
C9_DeltaNonNegative ==
    \A c \in CPUs :
        (cpu[c].h \in ExitHandlers /\ cpu[c].pc = "load_lat")
        => LeLimbs(cpu[c].ld, cpu[c].time)

(***************************************************************************)
(* C11: when interleaved handlers run lookup-or-init for one key that is   *)
(* not in the map, at most one of them creates an element for the key and  *)
(* every one of them obtains that element: once the key is in the map it   *)
(* keeps its element for as long as a handler that missed the key is still *)
(* inside its lookup-or-init.  In every state no two handlers are creating *)
(* an element for one key, none creates one for a key of the map, no two   *)
(* keys share an element and the map holds at most max_entries keys.       *)
(***************************************************************************)
\* context c takes the step
Steps(c) == cpu'[c] # cpu[c]

\* context c is inside lookup-or-init and its first lookup missed the key
Missed(c) == cpu[c].pc \in {"init", "init_copy", "init_link", "relookup"}

\* context c is creating an element for its key
Creating(c) == cpu[c].pc \in {"init_copy", "init_link"}

C11_Step ==
    \A c \in CPUs :
        LET k == cpu[c].key
        IN  (Missed(c) /\ k \in DOMAIN map)
            => (k \in DOMAIN map' /\ map'[k] = map[k])

C11_Table ==
    /\ Cardinality(DOMAIN map) <= max_entries
    /\ \A j, k \in DOMAIN map : j # k => map[j] # map[k]
    /\ \A c \in CPUs : Creating(c) => cpu[c].key \notin DOMAIN map
    /\ \A c, d \in CPUs :
          (c # d /\ Creating(c) /\ Creating(d)) => cpu[c].key # cpu[d].key

C12_Step == \A k \in DOMAIN map : k \in DOMAIN map'

C12_NoEviction == [][C12_Step]_vars

\* the map is full of keys recorded before a handler ran for a new key and
\* returned
C12_Witness ==
    /\ AllIdle
    /\ Cardinality(DOMAIN map) = max_entries
    /\ \E i \in DOMAIN log :
          /\ log[i].key \notin DOMAIN map
          /\ \A k \in DOMAIN map : \E j \in 1 .. (i - 1) : log[j].key = k

(***************************************************************************)
(* C13: a step of a handler invoked for key K, handlers interleaved,       *)
(* leaves every key no handler in flight was invoked for as it was,        *)
(* present with the same value or absent; entities and tasks that differ   *)
(* in name or id, in comm or in thread id get different keys, in every     *)
(* probe family.                                                           *)
(***************************************************************************)
C13_Step ==
    \A j \in DOMAIN map \cup DOMAIN map' :
        (\A c \in CPUs : cpu[c].key # j /\ cpu'[c].key # j)
        => (j \in DOMAIN map /\ j \in DOMAIN map' /\ ValNext(j) = Val(j))

C13_Keys ==
    \A T1, T2 \in KeyLoad.tasks :
        LET sameTask == T1.comm = T2.comm /\ T1.pid = T2.pid
        IN  /\ \A f1, f2 \in KeyLoad.fnames :
                  ~(f1 = f2 /\ sameTask)
                  => named_key(f1, T1) # named_key(f2, T2)
            /\ \A i1, i2 \in KeyLoad.sysids :
                  ~(i1 = i2 /\ sameTask)
                  => sysid_key(i1, T1) # sysid_key(i2, T2)
            /\ \A a1, a2 \in KeyLoad.args :
                  ~(a1.str = a2.str /\ sameTask)
                  => usdt_key_t(bpf_probe_read_str(a1).buf, T1)
                         # usdt_key_t(bpf_probe_read_str(a2).buf, T2)

C13_OtherKeysUntouched == []C13_Keys /\ [][C13_Step]_vars

(***************************************************************************)
(* C14: the key a handler builds for a name longer than the fname field    *)
(* holds the first FNAME_SIZE - 1 bytes of the name, which leaves room for *)
(* the terminator, with the comm and thread id of the task and, in ebpf.c, *)
(* the sysid 0 of the zeroed key; the event is recorded unless the map is  *)
(* full.  For do_enter/do_return and for the user-space marker handlers;   *)
(* the long names of the workload share their first FNAME_SIZE bytes.      *)
(***************************************************************************)
C14_LongNameTruncated ==
    \A i \in DOMAIN log :
        LET k == log[i].key
        IN  Len(k.fname) >= FNAME_SIZE - 1
            => /\ k.fname = Take(LongName, FNAME_SIZE - 1)
               /\ \E T \in KeyLoad.tasks :
                     k.comm = T.comm /\ k.pid = U32(T.pid)
               /\ "sysid" \in DOMAIN k => k.sysid = U32(0)
               /\ (AllIdle /\ log[i].h \in EntryHandlers)
                  => (k \in DOMAIN map \/ MapFull(map))

(***************************************************************************)
(* C15: in every state, between the steps of handlers in flight too, every *)
(* key of the map has counter >= 1.                                        *)
(***************************************************************************)
C15_PresentKeyCounted ==
    \A k \in DOMAIN map : LtLimbs(U32(0), Val(k).counter)

(***************************************************************************)
(* C16: without LATENCY every key of the map has cumLat = 0, and every key *)
(* of the map was put there by an entry handler.                           *)
(***************************************************************************)
C16_NoLatencyWhenDisabled ==
    ~LATENCY =>
        \A k \in DOMAIN map :
            /\ Val(k).cumLat = U64(0)
            /\ \E i \in DOMAIN log :
                  log[i].key = k /\ log[i].h \in EntryHandlers

(***************************************************************************)
(* C17: a step of an exit handler whose key is in the map leaves counter   *)
(* and startTime of the key as they were: the handler changes cumLat only  *)
(* and does not reset startTime.                                           *)
(***************************************************************************)
C17_Step ==
    \A c \in CPUs :
        (Steps(c) /\ cpu[c].h \in ExitHandlers /\ cpu[c].key \in DOMAIN map)
        => LET k == cpu[c].key
           IN  /\ k \in DOMAIN map'
               /\ ValNext(k).counter = Val(k).counter
               /\ ValNext(k).startTime = Val(k).startTime

C17_ExitChangesOnlyCumLat == [][C17_Step]_vars

(***************************************************************************)
(* C18: a handler that obtained the value of key K while K was in the map  *)
(* and reaches map.update() after the collector cleared K does not put K   *)
(* back into the map.                                                      *)
(***************************************************************************)
C18_Step ==
    \A c \in CPUs :
        (/\ Steps(c)
         /\ cpu[c].pc \in {"update", "copy", "link"}
         /\ cpu[c].key \notin DOMAIN map)
        => cpu[c].key \notin DOMAIN map'

C18_ClearedKeyStaysCleared == [][C18_Step]_vars

====
